---- MODULE Spec2Model ----
(***************************************************************************)
(* Capacity-driven demand generator of LS-Game-DataGen v2.0                *)
(* (src/src/demand_generator.cpp) and the main program that drives it      *)
(* (src/src/main.cpp).                                                     *)
(*                                                                         *)
(* Numbers: every C++ double is modelled as an exact rational <<n, d>>     *)
(* (d > 0, lowest terms); floating-point rounding is not modelled.         *)
(* Random numbers: std::mt19937 is modelled as a small deterministic       *)
(* generator whose whole state is set from the seed; one invocation of a   *)
(* distribution on the engine is one step of the generator.                *)
(***************************************************************************)
EXTENDS Integers, Sequences, FiniteSets, TLC

\* ------------------------------------------------------------------------
\* Bounds of the model
\* ------------------------------------------------------------------------
MaxU == 2
MaxI == 2
MaxT == 2
MaxCombos == 4
MaxSeed == 2
RandLevels == 4
RngMod == 64
MaxThreads == 2
MaxLogCalls == 3
MaxRows == 2

\* ------------------------------------------------------------------------
\* Exact rational arithmetic (the model of double)
\* ------------------------------------------------------------------------
Abs(x) == IF x < 0 THEN -x ELSE x

RECURSIVE GCD(_, _)
GCD(a, b) == IF b = 0 THEN a ELSE GCD(b, a % b)

R(n, d) ==
    LET g == GCD(Abs(n), Abs(d))
        s == IF d < 0 THEN -1 ELSE 1
    IN  <<(s * n) \div g, (s * d) \div g>>

RInt(k) == <<k, 1>>
RZero == <<0, 1>>
ROne == <<1, 1>>
RAdd(a, b) == R(a[1] * b[2] + b[1] * a[2], a[2] * b[2])
RSub(a, b) == R(a[1] * b[2] - b[1] * a[2], a[2] * b[2])
RMul(a, b) == R(a[1] * b[1], a[2] * b[2])
RDiv(a, b) == R(a[1] * b[2], a[2] * b[1])
RLe(a, b) == a[1] * b[2] <= b[1] * a[2]
RLt(a, b) == a[1] * b[2] < b[1] * a[2]
RMax(a, b) == IF RLt(a, b) THEN b ELSE a
RMin(a, b) == IF RLt(b, a) THEN b ELSE a
\* static_cast<int>(double): truncation toward zero
RTrunc(a) == IF a[1] >= 0 THEN a[1] \div a[2] ELSE -((-a[1]) \div a[2])

RECURSIVE RPow(_, _)
RPow(a, e) == IF e = 0 THEN ROne ELSE RMul(a, RPow(a, e - 1))

RECURSIVE RSum(_)
RSum(s) == IF s = <<>> THEN RZero ELSE RAdd(Head(s), RSum(Tail(s)))

\* 1.01, the tolerance factor of VerifyFeasibility
Tolerance == <<101, 100>>

\* ------------------------------------------------------------------------
\* std::mt19937 and the distributions
\* ------------------------------------------------------------------------
\* std::mt19937 rng(seed): the engine state is a function of the seed only
RngSeed(seed) == (7 * seed + 1) % RngMod

\* one engine step
RngStep(x) == (5 * x + 3) % RngMod

RECURSIVE RngAfter(_, _)
RngAfter(x, k) == IF k = 0 THEN x ELSE RngAfter(RngStep(x), k - 1)

\* the canonical value in [0, 1) that the k-th next draw yields
Canonical(x, k) == R((RngAfter(x, k) * RandLevels) \div RngMod, RandLevels)

\* std::uniform_real_distribution<double>(a, b) applied to a canonical value
UniformReal(a, b, r) == RAdd(a, RMul(r, RSub(b, a)))

\* std::discrete_distribution<int>(w) applied to a canonical value:
\* the first index whose cumulative probability exceeds r (0-based)
RECURSIVE DiscretePick(_, _, _, _)
DiscretePick(w, r, k, acc) ==
    IF k >= Len(w) THEN Len(w) - 1
    ELSE LET cum == RAdd(acc, w[k])
         IN  IF RLt(RMul(r, RSum(w)), cum) THEN k - 1
             ELSE DiscretePick(w, r, k + 1, cum)

Discrete(w, r) == DiscretePick(w, r, 1, RZero)

\* ------------------------------------------------------------------------
\* DemandGenConfig
\* ------------------------------------------------------------------------
Capacities == {RZero, RInt(3), RInt(100)}
UnitSX == {ROne, RInt(2)}
UnitSY == {RZero, RInt(2)}
Utilizations == {R(1, 2), ROne}
Intensities == {RZero, R(1, 2), ROne}
Concentrations == {RZero, ROne}
Variances == {RZero, ROne}

VARIABLES
    cfg,                  \* DemandGenConfig (never mutated)
    pc,                   \* position inside DemandGenerator::Generate
    rng,                  \* engine state
    draws,                \* number of distribution draws consumed so far
    total_demand_points,  \* N
    available_capacity,   \* CapacityBudget map (u,t) -> double
    period_weights,
    node_weights,
    item_weights,
    min_demand,
    max_demand,
    used_capacity,        \* UsedCapacity map (u,t) -> double
    idx,                  \* loop counter of the allocation loop
    demands,              \* the DemandSet being built
    created,              \* which of the two capacity maps exist
    err,                  \* the runtime_error raised by VerifyFeasibility
    mainPc,               \* position inside main()
    gc,                   \* main's GeneratorConfig
    logBuf,               \* Logger::buffer, one entry per line
    logSaves,             \* number of Logger::saveToFile calls made
    logFile,              \* contents of the log file on disk
    csv,                  \* the CsvWriter: file opened, wrote_header_, ofs_
    exitCode,             \* value returned by main (-1 while running)
    callNo,               \* how many times Generate has been called
    firstResult,          \* what the first of two calls produced
    mutex,                \* Logger::mutex: 0 when free, else the owning thread
    threads,              \* per thread: position inside the Logger method it runs
    calls                 \* the writeRow calls made on the CsvWriter so far

genVars == <<cfg, pc, rng, draws, total_demand_points, available_capacity,
             period_weights, node_weights, item_weights, min_demand,
             max_demand, used_capacity, idx, demands, created, err>>

mainVars == <<mainPc, gc, logBuf, logSaves, logFile, csv, exitCode>>

callVars == <<callNo, firstResult>>

unitVars == <<mutex, threads, calls>>

vars == <<genVars, mainVars, callVars, unitVars>>

NoErr == [what |-> "none"]

NoCsv == [open |-> FALSE, wrote_header |-> FALSE, ofs |-> <<>>]

Cells == (0 .. cfg.U - 1) \X (0 .. cfg.T - 1)

\* ordering of std::map<std::pair<int,int>, double> keys
KeyLess(a, b) == a[1] < b[1] \/ (a[1] = b[1] /\ a[2] < b[2])

\* std::map::operator[] on a missing key inserts a value-initialised 0.0
MapGet(m, k) == IF k \in DOMAIN m THEN m[k] ELSE RZero
MapTouch(m, ks) == [k \in DOMAIN m \cup ks |-> MapGet(m, k)]

Init ==
    /\ cfg \in [U : 1 .. MaxU, I : 1 .. MaxI, T : 1 .. MaxT,
                default_capacity : Capacities,
                unit_sX : UnitSX,
                unit_sY : UnitSY,
                capacity_utilization : Utilizations,
                demand_intensity : Intensities,
                time_concentration : Concentrations,
                node_concentration : Concentrations,
                item_concentration : Concentrations,
                random_seed : 0 .. MaxSeed,
                demand_size_variance : Variances]
    /\ cfg.U * cfg.I * cfg.T <= MaxCombos
    /\ pc = "idle"
    /\ rng = 0
    /\ draws = 0
    /\ total_demand_points = 0
    /\ available_capacity = <<>>
    /\ period_weights = <<>>
    /\ node_weights = <<>>
    /\ item_weights = <<>>
    /\ min_demand = RZero
    /\ max_demand = RZero
    /\ used_capacity = <<>>
    /\ idx = 0
    /\ demands = <<>>
    /\ created = {}
    /\ err = NoErr
    /\ mainPc = "start"
    /\ gc = <<>>
    /\ logBuf = <<>>
    /\ logSaves = 0
    /\ logFile = <<>>
    /\ csv = NoCsv
    /\ exitCode = -1
    /\ callNo = 0
    /\ firstResult = <<>>
    /\ mutex = 0
    /\ threads = <<>>
    /\ calls = <<>>

\* One configuration, with Generate not called: the state of the generator
\* while a single class is exercised on its own
UnitConfig ==
    [U |-> 1, I |-> 1, T |-> 1, default_capacity |-> RInt(3),
     unit_sX |-> ROne, unit_sY |-> RZero, capacity_utilization |-> ROne,
     demand_intensity |-> ROne, time_concentration |-> RZero,
     node_concentration |-> RZero, item_concentration |-> RZero,
     random_seed |-> 0, demand_size_variance |-> RZero]

GeneratorIdle ==
    /\ cfg = UnitConfig
    /\ pc = "idle"
    /\ rng = 0
    /\ draws = 0
    /\ total_demand_points = 0
    /\ available_capacity = <<>>
    /\ period_weights = <<>>
    /\ node_weights = <<>>
    /\ item_weights = <<>>
    /\ min_demand = RZero
    /\ max_demand = RZero
    /\ used_capacity = <<>>
    /\ idx = 0
    /\ demands = <<>>
    /\ created = {}
    /\ err = NoErr
    /\ callNo = 0
    /\ firstResult = <<>>

\* ------------------------------------------------------------------------
\* DemandGenerator::Generate, steps 1-2
\* ------------------------------------------------------------------------
PointCount(c) == RTrunc(RMul(RInt(c.U * c.I * c.T), c.demand_intensity))

\* variant: a single point is not worth generating either
NothingToGenerateBelowTwo(n) == n <= 1

\* if (total_demand_points == 0) return demands;
NothingToGenerate(n) == n = 0

\* variant: the engine is seeded by the first call only and the early
\* return is taken after seeding as before
GenerateEntryKeepsEngine ==
    /\ pc = "entry"
    /\ rng' = IF callNo <= 1 THEN RngSeed(cfg.random_seed) ELSE rng
    /\ total_demand_points' = PointCount(cfg)
    /\ pc' = IF NothingToGenerate(PointCount(cfg)) THEN "returned"
             ELSE "capacity"
    /\ UNCHANGED <<mainVars, callVars, unitVars, cfg, draws, available_capacity,
                   period_weights, node_weights, item_weights, min_demand,
                   max_demand, used_capacity, idx, demands, created, err>>

\* variant: the capacity map is built before the early return is taken
GenerateEntryBuildsMapFirst ==
    /\ pc = "entry"
    /\ rng' = RngSeed(cfg.random_seed)
    /\ total_demand_points' = PointCount(cfg)
    /\ available_capacity' =
          [k \in (0 .. cfg.U - 1) \X (0 .. cfg.T - 1) |-> RZero]
    /\ created' = created \cup {"available_capacity"}
    /\ pc' = IF NothingToGenerate(PointCount(cfg)) THEN "returned"
             ELSE "capacity"
    /\ UNCHANGED <<mainVars, callVars, unitVars, cfg, draws, period_weights,
                   node_weights, item_weights, min_demand, max_demand,
                   used_capacity, idx, demands, err>>

GenerateEntry ==
    /\ pc = "entry"
    /\ rng' = RngSeed(cfg.random_seed)
    /\ total_demand_points' = PointCount(cfg)
    /\ pc' = IF NothingToGenerate(PointCount(cfg)) THEN "returned"
             ELSE "capacity"
    /\ UNCHANGED <<mainVars, callVars, unitVars, cfg, draws, available_capacity, period_weights,
                   node_weights, item_weights, min_demand, max_demand,
                   used_capacity, idx, demands, created, err>>

\* ------------------------------------------------------------------------
\* DemandGenerator::CalculateAvailableCapacity
\* ------------------------------------------------------------------------
\* variant: the setup overhead is not taken off the raw capacity
AvailableCapIgnoresSetup(c) ==
    RMul(c.default_capacity, c.capacity_utilization)

\* variant: the difference is used as it is, negative or not
AvailableCapUnfloored(c) ==
    LET avg_setups_per_period == RMul(RInt(c.I), c.demand_intensity)
        setup_overhead == RMul(avg_setups_per_period, c.unit_sY)
    IN  RMul(RSub(c.default_capacity, setup_overhead), c.capacity_utilization)

AvailableCap(c) ==
    LET avg_setups_per_period == RMul(RInt(c.I), c.demand_intensity)
        setup_overhead == RMul(avg_setups_per_period, c.unit_sY)
        total_cap == c.default_capacity
        available_cap == RSub(total_cap, setup_overhead)
        nonneg == IF RLt(available_cap, RZero) THEN RZero ELSE available_cap
    IN  RMul(nonneg, c.capacity_utilization)

CalculateAvailableCapacity ==
    /\ pc = "capacity"
    /\ available_capacity' = [k \in Cells |-> AvailableCap(cfg)]
    /\ created' = created \cup {"available_capacity"}
    /\ pc' = "period_weights"
    /\ UNCHANGED <<mainVars, callVars, unitVars, cfg, rng, draws, total_demand_points, period_weights,
                   node_weights, item_weights, min_demand, max_demand,
                   used_capacity, idx, demands, err>>

\* ------------------------------------------------------------------------
\* Weight generation (period, node and item axes share one algorithm)
\* ------------------------------------------------------------------------
\* weights of n axis values under concentration c, engine state x:
\* the vector and the number of draws it consumed
\* variant: the uniform case is missing, weights are always drawn
WeightVectorAlwaysDrawn(n, c, x) ==
    LET expo == RTrunc(RAdd(ROne, RMul(c, RInt(3))))
        raw == [k \in 1 .. n |->
                   RPow(UniformReal(R(1, 2), R(3, 2), Canonical(x, k)), expo)]
        total == RSum(raw)
    IN  [w |-> [k \in 1 .. n |-> RDiv(raw[k], total)], used |-> n]

WeightVector(n, c, x) ==
    IF c = RZero
    THEN [w |-> [k \in 1 .. n |-> R(1, n)], used |-> 0]
    ELSE LET expo == RTrunc(RAdd(ROne, RMul(c, RInt(3))))
             raw == [k \in 1 .. n |->
                        RPow(UniformReal(R(1, 2), R(3, 2), Canonical(x, k)), expo)]
             total == RSum(raw)
         IN  [w |-> [k \in 1 .. n |-> RDiv(raw[k], total)], used |-> n]

GeneratePeriodWeights ==
    /\ pc = "period_weights"
    /\ LET g == WeightVector(cfg.T, cfg.time_concentration, rng)
       IN  /\ period_weights' = g.w
           /\ rng' = RngAfter(rng, g.used)
           /\ draws' = draws + g.used
    /\ pc' = "node_weights"
    /\ UNCHANGED <<mainVars, callVars, unitVars, cfg, total_demand_points, available_capacity,
                   node_weights, item_weights, min_demand, max_demand,
                   used_capacity, idx, demands, created, err>>

GenerateNodeWeights ==
    /\ pc = "node_weights"
    /\ LET g == WeightVector(cfg.U, cfg.node_concentration, rng)
       IN  /\ node_weights' = g.w
           /\ rng' = RngAfter(rng, g.used)
           /\ draws' = draws + g.used
    /\ pc' = "points"
    /\ UNCHANGED <<mainVars, callVars, unitVars, cfg, total_demand_points, available_capacity,
                   period_weights, item_weights, min_demand, max_demand,
                   used_capacity, idx, demands, created, err>>

\* ------------------------------------------------------------------------
\* DemandGenerator::GenerateDemandPoints, up to the allocation loop
\* ------------------------------------------------------------------------
RECURSIVE SumOver(_, _)
SumOver(m, ks) ==
    IF ks = {} THEN RZero
    ELSE LET k == CHOOSE x \in ks : TRUE
         IN  RAdd(m[k], SumOver(m, ks \ {k}))

TotalCapacity(m) == SumOver(m, DOMAIN m)

AvgDemandAmount(c, total_capacity, n) ==
    LET avg_demand_capacity == RDiv(total_capacity, RInt(n))
    IN  RDiv(avg_demand_capacity, c.unit_sX)

MinDemand(c, avg) ==
    RMax(ROne, RMul(avg, RSub(ROne, c.demand_size_variance)))

\* variant: the upper bound may coincide with the lower one
MaxDemandNoGap(c, avg) ==
    RMax(MinDemand(c, avg),
         RMul(avg, RAdd(ROne, c.demand_size_variance)))

MaxDemand(c, avg) ==
    RMax(RAdd(MinDemand(c, avg), ROne),
         RMul(avg, RAdd(ROne, c.demand_size_variance)))

\* variant: only a negative total stops the allocator
NoCapacityStrict(total_capacity) == RLt(total_capacity, RZero)

\* if (total_capacity <= 0) return;
NoCapacity(total_capacity) == RLe(total_capacity, RZero)

DemandPointsBegin ==
    /\ pc = "points"
    /\ LET total_capacity == TotalCapacity(available_capacity)
       IN  IF NoCapacity(total_capacity)
           THEN /\ pc' = "verify"
                /\ UNCHANGED <<rng, draws, item_weights, min_demand,
                               max_demand, created>>
           ELSE LET avg == AvgDemandAmount(cfg, total_capacity,
                                           total_demand_points)
                    g == WeightVector(cfg.I, cfg.item_concentration, rng)
                IN  /\ min_demand' = MinDemand(cfg, avg)
                    /\ max_demand' = MaxDemand(cfg, avg)
                    /\ item_weights' = g.w
                    /\ rng' = RngAfter(rng, g.used)
                    /\ draws' = draws + g.used
                    /\ created' = created \cup {"used_capacity"}
                    /\ pc' = "loop"
    /\ UNCHANGED <<mainVars, callVars, unitVars, cfg, total_demand_points, available_capacity,
                   period_weights, node_weights, used_capacity, idx,
                   demands, err>>

\* ------------------------------------------------------------------------
\* One iteration of the allocation loop
\* ------------------------------------------------------------------------
Remaining(avail, used, k) == RSub(avail[k], MapGet(used, k))

\* variant: the scan gives up after the cells of the first node
FreeCellsOfFirstNode(avail, used) ==
    {k \in DOMAIN avail :
        k[1] = 0 /\ RLt(RZero, Remaining(avail, used, k))}

\* variant: the scan also accepts a cell with nothing left
FreeCellsInclusive(avail, used) ==
    {k \in DOMAIN avail : RLe(RZero, Remaining(avail, used, k))}

\* the cells the fallback scan accepts
FreeCells(avail, used) ==
    {k \in DOMAIN avail : RLt(RZero, Remaining(avail, used, k))}

\* variant: the scan runs through the periods first, then the nodes
FirstFreeByPeriod(avail, used) ==
    CHOOSE k \in FreeCells(avail, used) :
        \A j \in FreeCells(avail, used) :
            j = k \/ KeyLess(<<k[2], k[1]>>, <<j[2], j[1]>>)

\* the fallback scan: first entry, in key order, with capacity left
FirstFree(avail, used) ==
    CHOOSE k \in FreeCells(avail, used) :
        \A j \in FreeCells(avail, used) : j = k \/ KeyLess(k, j)

\* keys the fallback scan reads through used_capacity[...] before it stops
ScannedKeys(avail, used) ==
    IF FreeCells(avail, used) = {} THEN DOMAIN avail
    ELSE {k \in DOMAIN avail :
            k = FirstFree(avail, used) \/ KeyLess(k, FirstFree(avail, used))}

\* variant: the amount is added without the capacity it takes per unit
UseCapacityUnscaled(used, key, demand_amount, unit_sX) ==
    [used EXCEPT ![key] = RAdd(@, demand_amount)]

\* used_capacity[key] += demand_amount * config.unit_sX
UseCapacity(used, key, demand_amount, unit_sX) ==
    [used EXCEPT ![key] = RAdd(@, RMul(demand_amount, unit_sX))]

\* variant: the minimum amount is 2
DemandAmountFlooredAtTwo(candidate, avail_cap, unit_sX) ==
    LET max_possible_amount == RDiv(avail_cap, unit_sX)
    IN  RMax(RInt(2), RMin(candidate, max_possible_amount))

\* variant: no minimum amount
DemandAmountUnfloored(candidate, avail_cap, unit_sX) ==
    LET max_possible_amount == RDiv(avail_cap, unit_sX)
    IN  RMin(candidate, max_possible_amount)

\* variant: the candidate is not clamped to the cell
DemandAmountUnclamped(candidate, avail_cap, unit_sX) ==
    RMax(ROne, candidate)

\* amount of one point: the candidate, clamped to the cell, floored at 1
DemandAmount(candidate, avail_cap, unit_sX) ==
    LET max_possible_amount == RDiv(avail_cap, unit_sX)
    IN  RMax(ROne, RMin(candidate, max_possible_amount))

\* variant: the amount is drawn before the attempt is dropped
DrawsOfAttemptAlwaysFour(found) == 4

\* distribution calls of one attempt: time_dist, node_dist and
\* item_dist_weighted, then amount_dist unless `continue` was taken
DrawsOfAttempt(found) == IF found THEN 4 ELSE 3

\* variant: the braces list the item before the node
DemandEntryItemFirst(u, i, t, amount) ==
    [u |-> i, i |-> u, t |-> t, amount |-> amount]

\* demands.push_back({u, i, t, demand_amount})
DemandEntry(u, i, t, amount) ==
    [u |-> u, i |-> i, t |-> t, amount |-> amount]

\* variant: the counter moves by two
NextIdxByTwo(i) == i + 2

\* ++idx, reached from the end of the body and from `continue` alike
NextIdx(i) == i + 1

\* variant: the loop runs one iteration too many
LoopContinuesInclusive(i, n) == i <= n

\* for (int idx = 0; idx < total_demand_points; ++idx)
LoopContinues(i, n) == i < n

DemandPoint ==
    /\ pc = "loop"
    /\ LoopContinues(idx, total_demand_points)
    /\ LET t0 == Discrete(period_weights, Canonical(rng, 1))
           u0 == Discrete(node_weights, Canonical(rng, 2))
           i0 == Discrete(item_weights, Canonical(rng, 3))
           key0 == <<u0, t0>>
           used0 == MapTouch(used_capacity, {key0})
           direct == RLt(RZero, Remaining(available_capacity, used0, key0))
           found == direct \/ FreeCells(available_capacity, used0) # {}
           used1 == IF direct THEN used0
                    ELSE MapTouch(used0, ScannedKeys(available_capacity, used0))
       IN  IF ~found
           THEN /\ used_capacity' = used1
                /\ rng' = RngAfter(rng, DrawsOfAttempt(found))
                /\ draws' = draws + DrawsOfAttempt(found)
                /\ UNCHANGED demands
           ELSE LET key == IF direct THEN key0
                           ELSE FirstFree(available_capacity, used0)
                    avail_cap == Remaining(available_capacity, used1, key)
                    candidate == UniformReal(min_demand, max_demand,
                                             Canonical(rng, 4))
                    demand_amount == DemandAmount(candidate, avail_cap,
                                                  cfg.unit_sX)
                IN  /\ used_capacity' = UseCapacity(used1, key, demand_amount,
                                                     cfg.unit_sX)
                    /\ demands' = Append(demands,
                          DemandEntry(key[1], i0, key[2], demand_amount))
                    /\ rng' = RngAfter(rng, DrawsOfAttempt(found))
                    /\ draws' = draws + DrawsOfAttempt(found)
    /\ idx' = NextIdx(idx)
    /\ UNCHANGED <<mainVars, callVars, unitVars, cfg, pc, total_demand_points, available_capacity,
                   period_weights, node_weights, item_weights, min_demand,
                   max_demand, created, err>>

DemandPointsEnd ==
    /\ pc = "loop"
    /\ ~LoopContinues(idx, total_demand_points)
    /\ pc' = "verify"
    /\ UNCHANGED <<mainVars, callVars, unitVars, cfg, rng, draws, total_demand_points, available_capacity,
                   period_weights, node_weights, item_weights, min_demand,
                   max_demand, used_capacity, idx, demands, created, err>>

\* ------------------------------------------------------------------------
\* DemandGenerator::VerifyFeasibility
\* ------------------------------------------------------------------------
RECURSIVE UsageOf(_, _, _)
UsageOf(ds, k, unit_sX) ==
    IF ds = <<>> THEN RZero
    ELSE LET d == Head(ds)
             rest == UsageOf(Tail(ds), k, unit_sX)
         IN  IF <<d.u, d.t>> = k THEN RAdd(RMul(d.amount, unit_sX), rest)
             ELSE rest

\* actual_usage: one entry per (u,t) that carries demand
ActualUsage(ds, unit_sX) ==
    [k \in {<<ds[j].u, ds[j].t>> : j \in DOMAIN ds} |-> UsageOf(ds, k, unit_sX)]

\* variant: a tolerance of 10%
ViolatesByTenPercent(usage, capacity) == RLt(RMul(capacity, R(11, 10)), usage)

Violates(usage, capacity) == RLt(RMul(capacity, Tolerance), usage)

Violating(ds, avail, unit_sX) ==
    {k \in DOMAIN ActualUsage(ds, unit_sX) :
        Violates(ActualUsage(ds, unit_sX)[k], avail[k])}

VerifyFeasibility ==
    /\ pc = "verify"
    /\ LET actual_usage == ActualUsage(demands, cfg.unit_sX)
           bad == Violating(demands, available_capacity, cfg.unit_sX)
       IN  IF bad = {}
           THEN /\ pc' = "returned"
                /\ err' = err
           ELSE LET k == CHOOSE x \in bad :
                            \A y \in bad : y = x \/ KeyLess(x, y)
                IN  /\ pc' = "thrown"
                    /\ err' = [what |-> "feasibility", node |-> k[1],
                               period |-> k[2], usage |-> actual_usage[k],
                               capacity |-> available_capacity[k]]
    /\ UNCHANGED <<mainVars, callVars, unitVars, cfg, rng, draws, total_demand_points, available_capacity,
                   period_weights, node_weights, item_weights, min_demand,
                   max_demand, used_capacity, idx, demands, created>>

\* ------------------------------------------------------------------------
\* A call of DemandGenerator::Generate: fresh locals, control at the top
\* ------------------------------------------------------------------------
EnterGenerate ==
    /\ pc' = "entry"
    /\ draws' = 0
    /\ total_demand_points' = 0
    /\ available_capacity' = <<>>
    /\ period_weights' = <<>>
    /\ node_weights' = <<>>
    /\ item_weights' = <<>>
    /\ min_demand' = RZero
    /\ max_demand' = RZero
    /\ used_capacity' = <<>>
    /\ idx' = 0
    /\ demands' = <<>>
    /\ created' = {}
    /\ err' = NoErr
    /\ callNo' = callNo + 1
    /\ UNCHANGED <<cfg, rng, unitVars>>

\* ------------------------------------------------------------------------
\* Logger
\* ------------------------------------------------------------------------
\* Logger::log applied to several messages in turn
LogAll(buffer, messages) == buffer \o messages

\* Logger::saveToFile; opened says whether the log file could be opened
SaveToFile(buffer, file, opened) ==
    IF opened
    THEN [file |-> buffer, buffer |-> Append(buffer, "log saved")]
    ELSE [file |-> file, buffer |-> buffer]

\* The same methods with several threads on one Logger, at the grain of
\* the statements that touch shared state.  A buffer entry is either the
\* text of a line, <<kind, thread, call>>, or the line terminator.
Threads == 1 .. MaxThreads

Newline == <<"\n", 0, 0>>

IdleThread == [pc |-> "idle", ops |-> <<>>]

RECURSIVE OpsBegun(_)
OpsBegun(n) == IF n = 0 THEN 0 ELSE Len(threads[n].ops) + OpsBegun(n - 1)

\* calls made so far by all threads together
CallsBegun == OpsBegun(MaxThreads)

CurrentOp(t) == threads[t].ops[Len(threads[t].ops)]

\* a thread calls one of the public methods
ThreadCall(t) ==
    /\ threads[t].pc = "idle"
    /\ CallsBegun < MaxLogCalls
    /\ \E op \in {"log", "saveToFile", "getLogFilename"} :
          threads' = [threads EXCEPT
              ![t] = [pc |-> IF op = "getLogFilename" THEN "read" ELSE "lock",
                      ops |-> Append(threads[t].ops, op)]]
    /\ UNCHANGED <<genVars, mainVars, callVars, mutex, calls>>

\* std::lock_guard<std::mutex> lock(mutex) in log and saveToFile
LockGuard(t) ==
    /\ threads[t].pc = "lock"
    /\ mutex = 0
    /\ mutex' = t
    /\ threads' = [threads EXCEPT ![t].pc = "body"]
    /\ UNCHANGED <<genVars, mainVars, callVars, calls>>

\* log: timestamp, line, console output, buffer << line
LogLine(t) ==
    /\ threads[t].pc = "body"
    /\ CurrentOp(t) = "log"
    /\ logBuf' = Append(logBuf, <<"line", t, Len(threads[t].ops)>>)
    /\ threads' = [threads EXCEPT ![t].pc = "newline"]
    /\ UNCHANGED <<genVars, mainPc, gc, logSaves, logFile, csv, exitCode,
                   callVars, mutex, calls>>

\* saveToFile: open the file; write buffer.str() and build the message,
\* or report the failure on stderr
SaveOpen(t) ==
    /\ threads[t].pc = "body"
    /\ CurrentOp(t) = "saveToFile"
    /\ \E opened \in BOOLEAN :
          IF opened
          THEN /\ logFile' = logBuf
               /\ threads' = [threads EXCEPT ![t].pc = "message"]
          ELSE /\ logFile' = logFile
               /\ threads' = [threads EXCEPT ![t].pc = "unlock"]
    /\ logSaves' = logSaves + 1
    /\ UNCHANGED <<genVars, mainPc, gc, logBuf, csv, exitCode, callVars,
                   mutex, calls>>

\* saveToFile: buffer << msg
SaveMessage(t) ==
    /\ threads[t].pc = "message"
    /\ logBuf' = Append(logBuf, <<"saved", t, Len(threads[t].ops)>>)
    /\ threads' = [threads EXCEPT ![t].pc = "newline"]
    /\ UNCHANGED <<genVars, mainPc, gc, logSaves, logFile, csv, exitCode,
                   callVars, mutex, calls>>

\* ... << "\n", the second insertion of either method
BufferNewline(t) ==
    /\ threads[t].pc = "newline"
    /\ logBuf' = Append(logBuf, Newline)
    /\ threads' = [threads EXCEPT ![t].pc = "unlock"]
    /\ UNCHANGED <<genVars, mainPc, gc, logSaves, logFile, csv, exitCode,
                   callVars, mutex, calls>>

\* the lock_guard is destroyed when the method returns
Unlock(t) ==
    /\ threads[t].pc = "unlock"
    /\ mutex' = 0
    /\ threads' = [threads EXCEPT ![t].pc = "idle"]
    /\ UNCHANGED <<genVars, mainVars, callVars, calls>>

\* getLogFilename: return log_filename, no lock taken
GetLogFilename(t) ==
    /\ threads[t].pc = "read"
    /\ threads' = [threads EXCEPT ![t].pc = "idle"]
    /\ UNCHANGED <<genVars, mainVars, callVars, mutex, calls>>

\* ------------------------------------------------------------------------
\* CsvWriter
\* ------------------------------------------------------------------------
\* Text is a sequence of pieces: each piece is one of the characters
\* escape looks for, or a run of other characters.  The stream ofs_ is
\* the sequence of pieces written so far.
Special == {",", "\"", "\n", "\r"}

\* "section,key,u,v,i,t,value\n"
CsvHeader == <<"section", ",", "key", ",", "u", ",", "v", ",", "i", ",", "t",
               ",", "value", "\n">>

\* the variant that writes the header before every row
WriteHeaderAlways(w) == [w EXCEPT !.ofs = @ \o CsvHeader]

\* CsvWriter::writeHeaderIfNeeded
WriteHeaderIfNeeded(w) ==
    IF ~w.wrote_header
    THEN [w EXCEPT !.ofs = @ \o CsvHeader, !.wrote_header = TRUE]
    ELSE w

RECURSIVE DoubleQuotes(_)
DoubleQuotes(s) ==
    IF s = <<>> THEN <<>>
    ELSE (IF Head(s) = "\"" THEN <<"\"", "\"">> ELSE <<Head(s)>>)
         \o DoubleQuotes(Tail(s))

\* CsvWriter::escape
Escape(s) ==
    LET need_quote == \E k \in DOMAIN s : s[k] \in Special
    IN  IF ~need_quote THEN s
        ELSE <<"\"">> \o DoubleQuotes(s) \o <<"\"">>

ToStringOrEmpty(val) == IF val < 0 THEN <<>> ELSE <<ToString(val)>>

\* CsvWriter::writeRow(..., const std::string& value)
WriteRow(w, section, key, u, v, i, t, value) ==
    LET headed == WriteHeaderIfNeeded(w)
    IN  [headed EXCEPT !.ofs = @ \o Escape(section) \o <<",">>
                                   \o Escape(key) \o <<",">>
                                   \o ToStringOrEmpty(u) \o <<",">>
                                   \o ToStringOrEmpty(v) \o <<",">>
                                   \o ToStringOrEmpty(i) \o <<",">>
                                   \o ToStringOrEmpty(t) \o <<",">>
                                   \o Escape(value) \o <<"\n">>]

\* the int and double overloads convert the value to text
IntValue(value) == <<ToString(value)>>
DoubleValue(value) == <<ToString(RTrunc(value))>>

\* CsvWriter::writeRow(..., int value)
WriteRowInt(w, section, key, u, v, i, t, value) ==
    WriteRow(w, section, key, u, v, i, t, IntValue(value))

\* CsvWriter::writeRow(..., double value)
WriteRowDouble(w, section, key, u, v, i, t, value) ==
    WriteRow(w, section, key, u, v, i, t, DoubleValue(value))

\* arguments the three overloads are called with
CsvTexts == {<<>>, <<"a">>, <<"a", ",", "b">>, <<"\"">>, <<"a", "\n", "b">>}
CsvSections == {<<"meta">>, <<"a", "\r">>}
CsvIndices == {-1, 0}
CsvInts == {-1, 7}
CsvDoubles == {R(5, 2), RInt(-3)}

\* one call of writeRow on the writer, string overload
CallWriteRowString ==
    /\ mainPc = "rows"
    /\ Len(calls) < MaxRows
    /\ \E section \in CsvSections : \E u \in CsvIndices :
       \E value \in CsvTexts :
          /\ csv' = WriteRow(csv, section, <<"k">>, u, -1, 0, -1, value)
          /\ calls' = Append(calls, [overload |-> "string",
                                     texts |-> <<section, <<"k">>, value>>])
    /\ UNCHANGED <<genVars, mainPc, gc, logBuf, logSaves, logFile, exitCode,
                   callVars, mutex, threads>>

\* int overload
CallWriteRowInt ==
    /\ mainPc = "rows"
    /\ Len(calls) < MaxRows
    /\ \E section \in CsvSections : \E u \in CsvIndices :
       \E value \in CsvInts :
          /\ csv' = WriteRowInt(csv, section, <<"k">>, u, -1, 0, -1, value)
          /\ calls' = Append(calls, [overload |-> "int",
                                     texts |-> <<section, <<"k">> >>])
    /\ UNCHANGED <<genVars, mainPc, gc, logBuf, logSaves, logFile, exitCode,
                   callVars, mutex, threads>>

\* double overload
CallWriteRowDouble ==
    /\ mainPc = "rows"
    /\ Len(calls) < MaxRows
    /\ \E section \in CsvSections : \E u \in CsvIndices :
       \E value \in CsvDoubles :
          /\ csv' = WriteRowDouble(csv, section, <<"k">>, u, -1, 0, -1, value)
          /\ calls' = Append(calls, [overload |-> "double",
                                     texts |-> <<section, <<"k">> >>])
    /\ UNCHANGED <<genVars, mainPc, gc, logBuf, logSaves, logFile, exitCode,
                   callVars, mutex, threads>>

\* ------------------------------------------------------------------------
\* CaseGenerator
\* ------------------------------------------------------------------------
ValidateOk(g) ==
    /\ g.U > 0 /\ g.I > 0 /\ g.T > 0
    /\ Len(g.cX) = g.I
    /\ Len(g.cY) = g.I
    /\ Len(g.cI) = g.I
    /\ Len(g.sX) = g.I
    /\ Len(g.sY) = g.I
    /\ RLe(RZero, g.default_capacity)
    /\ RLe(RZero, g.default_i0)
    /\ RLe(RZero, g.mip_gap)
    /\ g.time_limit_sec > 0
    /\ g.max_iters > 0
    /\ \A k \in DOMAIN g.demand :
          LET d == g.demand[k]
          IN  /\ 0 <= d.u /\ d.u < g.U
              /\ 0 <= d.i /\ d.i < g.I
              /\ 0 <= d.t /\ d.t < g.T
              /\ RLe(RZero, d.amount)
    /\ \A k \in DOMAIN g.capacity_overrides :
          LET c == g.capacity_overrides[k]
          IN  /\ 0 <= c.u /\ c.u < g.U
              /\ 0 <= c.t /\ c.t < g.T
              /\ RLe(RZero, c.value)
    /\ \A k \in DOMAIN g.i0_overrides :
          LET z == g.i0_overrides[k]
          IN  /\ 0 <= z.u /\ z.u < g.U
              /\ 0 <= z.i /\ z.i < g.I
              /\ RLe(RZero, z.value)
    /\ IF g.enable_transfer
       THEN /\ \A k \in DOMAIN g.transfer_costs :
                  LET e == g.transfer_costs[k]
                  IN  /\ 0 <= e.u /\ e.u < g.U
                      /\ 0 <= e.v /\ e.v < g.U
                      /\ 0 <= e.i /\ e.i < g.I
                      /\ 0 <= e.t /\ e.t < g.T
                      /\ RLe(RZero, e.cost)
            /\ \A k \in DOMAIN g.bigM :
                  LET m == g.bigM[k]
                  IN  /\ 0 <= m.i /\ m.i < g.I
                      /\ 0 <= m.t /\ m.t < g.T
                      /\ RLt(RZero, m.M)
       ELSE /\ g.transfer_costs = <<>>
            /\ g.bigM = <<>>

\* the rows GenerateCsv writes, as writeRow argument lists, in order
CsvRows(g) ==
    LET meta == << << <<"meta">>, <<"U">>, -1, -1, -1, -1, IntValue(g.U)>>,
                   << <<"meta">>, <<"I">>, -1, -1, -1, -1, IntValue(g.I)>>,
                   << <<"meta">>, <<"T">>, -1, -1, -1, -1, IntValue(g.T)>>,
                   << <<"meta">>, <<"enable_transfer">>, -1, -1, -1, -1,
                     IntValue(IF g.enable_transfer THEN 1 ELSE 0)>> >>
        perItem(section, key, vec) ==
            [k \in 1 .. g.I |->
                << <<section>>, <<key>>, -1, -1, k - 1, -1, DoubleValue(vec[k])>>]
        capacity ==
            [k \in 1 .. g.U * g.T |->
                << <<"capacity">>, <<"C">>, (k - 1) \div g.T, -1, -1, (k - 1) % g.T,
                  DoubleValue(g.default_capacity)>>]
        capOver ==
            [k \in DOMAIN g.capacity_overrides |->
                << <<"capacity">>, <<"C">>, g.capacity_overrides[k].u, -1, -1,
                  g.capacity_overrides[k].t,
                  DoubleValue(g.capacity_overrides[k].value)>>]
        init ==
            [k \in 1 .. g.U * g.I |->
                << <<"init">>, <<"I0">>, (k - 1) \div g.I, -1, (k - 1) % g.I, -1,
                  DoubleValue(g.default_i0)>>]
        i0Over ==
            [k \in DOMAIN g.i0_overrides |->
                << <<"init">>, <<"I0">>, g.i0_overrides[k].u, -1,
                  g.i0_overrides[k].i, -1,
                  DoubleValue(g.i0_overrides[k].value)>>]
        demand ==
            [k \in DOMAIN g.demand |->
                << <<"demand">>, <<"Demand">>, g.demand[k].u, -1, g.demand[k].i,
                  g.demand[k].t, DoubleValue(g.demand[k].amount)>>]
        transfer ==
            IF g.enable_transfer
            THEN [k \in DOMAIN g.transfer_costs |->
                    << <<"transfer">>, <<"cT">>, g.transfer_costs[k].u,
                      g.transfer_costs[k].v, g.transfer_costs[k].i,
                      g.transfer_costs[k].t,
                      DoubleValue(g.transfer_costs[k].cost)>>]
                 \o [k \in DOMAIN g.bigM |->
                    << <<"bigM">>, <<"M">>, -1, -1, g.bigM[k].i, g.bigM[k].t,
                      DoubleValue(g.bigM[k].M)>>]
            ELSE <<>>
        solver ==
            << << <<"solver">>, <<"mip_gap">>, -1, -1, -1, -1, DoubleValue(g.mip_gap)>>,
               << <<"solver">>, <<"time_limit_sec">>, -1, -1, -1, -1,
                 IntValue(g.time_limit_sec)>>,
               << <<"solver">>, <<"threads">>, -1, -1, -1, -1, IntValue(g.threads)>>,
               << <<"solver">>, <<"sep_violation_eps">>, -1, -1, -1, -1,
                 DoubleValue(g.sep_violation_eps)>>,
               << <<"solver">>, <<"max_iters">>, -1, -1, -1, -1,
                 IntValue(g.max_iters)>> >>
    IN  meta \o perItem("cost", "cX", g.cX) \o perItem("cost", "cY", g.cY)
             \o perItem("cost", "cI", g.cI)
             \o perItem("cap_usage", "sX", g.sX)
             \o perItem("cap_usage", "sY", g.sY)
             \o capacity \o capOver \o init \o i0Over \o demand
             \o transfer \o solver

\* the writeRow calls lo .. hi of a list, made one after the other; the
\* range is halved and its first half evaluated first, which keeps the
\* evaluation shallow (after a row the header has always been written)
RECURSIVE WriteRowsRange(_, _, _, _)
WriteRowsRange(w, rows, lo, hi) ==
    IF lo > hi THEN w
    ELSE IF lo = hi
    THEN LET r == rows[lo]
         IN  WriteRow(w, r[1], r[2], r[3], r[4], r[5], r[6], r[7])
    ELSE LET mid == (lo + hi) \div 2
             before == WriteRowsRange(w, rows, lo, mid)
         IN  IF before.wrote_header
             THEN WriteRowsRange(before, rows, mid + 1, hi)
             ELSE before

WriteRows(w, rows) == WriteRowsRange(w, rows, 1, Len(rows))

\* ------------------------------------------------------------------------
\* main
\* ------------------------------------------------------------------------
InitialInventoryRatio == RZero

\* main's GeneratorConfig as built before the call of Generate
MainGeneratorConfig(c) ==
    LET total_capacity == RMul(RInt(c.U * c.T), c.default_capacity)
        estimated_setup_overhead ==
            RMul(RMul(RInt(c.U * c.T * c.I), c.demand_intensity), c.unit_sY)
        available_production_capacity ==
            RSub(total_capacity, estimated_setup_overhead)
        estimated_total_demand ==
            RDiv(RMul(available_production_capacity, c.capacity_utilization),
                 c.unit_sX)
        estimated_demand_points == PointCount(c)
        avg_demand == IF estimated_demand_points > 0
                      THEN RDiv(estimated_total_demand,
                                RInt(estimated_demand_points))
                      ELSE RZero
    IN  [U |-> c.U, I |-> c.I, T |-> c.T, enable_transfer |-> FALSE,
         cX |-> [k \in 1 .. c.I |-> ROne],
         cY |-> [k \in 1 .. c.I |-> ROne],
         cI |-> [k \in 1 .. c.I |-> ROne],
         sX |-> [k \in 1 .. c.I |-> c.unit_sX],
         sY |-> [k \in 1 .. c.I |-> c.unit_sY],
         default_capacity |-> c.default_capacity,
         default_i0 |-> RMul(avg_demand, InitialInventoryRatio),
         capacity_overrides |-> <<>>, i0_overrides |-> <<>>,
         demand |-> <<>>, transfer_costs |-> <<>>, bigM |-> <<>>,
         mip_gap |-> R(1, 1000000), time_limit_sec |-> 60, threads |-> 0,
         sep_violation_eps |-> R(1, 100000000), max_iters |-> 50]

\* main up to and including the call of DemandGenerator::Generate
MainCallGenerate ==
    /\ mainPc = "start"
    /\ pc = "idle"
    /\ logBuf' = LogAll(logBuf,
           <<"banner", "strategy", "generating demand", "parameters",
             "scale", "capacity", "utilization", "intensity",
             "time concentration", "inventory ratio">>)
    /\ gc' = MainGeneratorConfig(cfg)
    /\ mainPc' = "generate"
    /\ EnterGenerate
    /\ UNCHANGED <<logSaves, logFile, csv, exitCode, firstResult>>

\* Generate has returned: statistics, solver parameters, output file name
MainGenerateReturned ==
    /\ mainPc = "generate"
    /\ pc = "returned"
    /\ gc' = [gc EXCEPT !.demand = demands]
    /\ logBuf' = LogAll(logBuf,
           <<"demand count">>
           \o (IF demands # <<>>
               THEN <<"total demand", "average demand", "actual utilization">>
               ELSE <<>>)
           \o <<"writing case file", "transfer">>)
    /\ mainPc' = "open_csv"
    /\ UNCHANGED <<genVars, logSaves, logFile, csv, exitCode, callVars, unitVars>>

\* CsvWriter writer(output_file): the file may fail to open
MainOpenCsv ==
    /\ mainPc = "open_csv"
    /\ \E opened \in BOOLEAN :
          IF opened
          THEN /\ csv' = [open |-> TRUE, wrote_header |-> FALSE,
                          ofs |-> <<>>]
               /\ mainPc' = "generate_csv"
          ELSE /\ csv' = csv
               /\ mainPc' = "caught"
    /\ UNCHANGED <<genVars, gc, logBuf, logSaves, logFile, exitCode,
                   callVars, unitVars>>

\* the variant that writes the first meta row before it validates
MainGenerateCsvValidatesLate ==
    /\ mainPc = "generate_csv"
    /\ IF ValidateOk(gc)
       THEN /\ csv' = WriteRows(csv, CsvRows(gc))
            /\ mainPc' = "finish"
       ELSE /\ csv' = WriteRowInt(csv, <<"meta">>, <<"U">>, -1, -1, -1, -1,
                                  gc.U)
            /\ mainPc' = "caught"
    /\ UNCHANGED <<genVars, gc, logBuf, logSaves, logFile, exitCode,
                   callVars, unitVars>>

\* CaseGenerator::GenerateCsv(gc, writer)
MainGenerateCsv ==
    /\ mainPc = "generate_csv"
    /\ IF ValidateOk(gc)
       THEN /\ csv' = WriteRows(csv, CsvRows(gc))
            /\ mainPc' = "finish"
       ELSE /\ csv' = csv
            /\ mainPc' = "caught"
    /\ UNCHANGED <<genVars, gc, logBuf, logSaves, logFile, exitCode,
                   callVars, unitVars>>

\* success: three log lines, saveToFile, return 0
MainFinish ==
    /\ mainPc = "finish"
    /\ \E opened \in BOOLEAN :
          LET saved == SaveToFile(
                  LogAll(logBuf, <<"success", "output file", "done">>),
                  logFile, opened)
          IN  /\ logBuf' = saved.buffer
              /\ logFile' = saved.file
    /\ logSaves' = logSaves + 1
    /\ exitCode' = 0
    /\ mainPc' = "exited"
    /\ UNCHANGED <<genVars, gc, csv, callVars, unitVars>>

\* variant: the handler reports success
MainCatchReturnsZero ==
    /\ \/ mainPc = "generate" /\ pc = "thrown"
       \/ mainPc = "caught"
    /\ \E opened \in BOOLEAN :
          LET saved == SaveToFile(LogAll(logBuf, <<"error">>), logFile, opened)
          IN  /\ logBuf' = saved.buffer
              /\ logFile' = saved.file
    /\ logSaves' = logSaves + 1
    /\ exitCode' = 0
    /\ mainPc' = "exited"
    /\ UNCHANGED <<genVars, gc, csv, callVars, unitVars>>

\* catch (const std::exception&): log the error, saveToFile, return 1
MainCatch ==
    /\ \/ mainPc = "generate" /\ pc = "thrown"
       \/ mainPc = "caught"
    /\ \E opened \in BOOLEAN :
          LET saved == SaveToFile(LogAll(logBuf, <<"error">>), logFile, opened)
          IN  /\ logBuf' = saved.buffer
              /\ logFile' = saved.file
    /\ logSaves' = logSaves + 1
    /\ exitCode' = 1
    /\ mainPc' = "exited"
    /\ UNCHANGED <<genVars, gc, csv, callVars, unitVars>>

\* ------------------------------------------------------------------------
\* main with transfer enabled: the transfer-cost and bigM tables
\* ------------------------------------------------------------------------
TransferCost == RInt(5)

\* the (u, v, i, t) visited by the four nested loops, in loop order
Quads(U, I, T) ==
    [k \in 1 .. U * U * I * T |->
        [u |-> (k - 1) \div (U * I * T), v |-> ((k - 1) \div (I * T)) % U,
         i |-> ((k - 1) \div T) % I, t |-> (k - 1) % T]]

\* the variant without "if (u == v) continue"
TransferCostsAllPairs(U, I, T) ==
    [k \in DOMAIN Quads(U, I, T) |->
        [u |-> Quads(U, I, T)[k].u, v |-> Quads(U, I, T)[k].v,
         i |-> Quads(U, I, T)[k].i, t |-> Quads(U, I, T)[k].t,
         cost |-> TransferCost]]

\* gc.transfer_costs after the loops
TransferCosts(U, I, T) ==
    LET kept == SelectSeq(Quads(U, I, T), LAMBDA q : q.u # q.v)
    IN  [k \in DOMAIN kept |->
            [u |-> kept[k].u, v |-> kept[k].v, i |-> kept[k].i,
             t |-> kept[k].t, cost |-> TransferCost]]

TotalDemandSum(demand) == RSum([k \in DOMAIN demand |-> demand[k].amount])

BigMValue(demand) ==
    RMax(RInt(10000), RMul(TotalDemandSum(demand), RInt(2)))

\* gc.bigM after the loops
BigMTable(I, T, value) ==
    [k \in 1 .. I * T |->
        [i |-> (k - 1) \div T, t |-> (k - 1) % T, M |-> value]]

\* a GeneratorConfig that Validate accepts
ValidConfig(U, I, T, transfer, demand) ==
    [U |-> U, I |-> I, T |-> T, enable_transfer |-> transfer,
     cX |-> [k \in 1 .. I |-> ROne],
     cY |-> [k \in 1 .. I |-> ROne],
     cI |-> [k \in 1 .. I |-> ROne],
     sX |-> [k \in 1 .. I |-> ROne],
     sY |-> [k \in 1 .. I |-> RInt(2)],
     default_capacity |-> RInt(20000),
     default_i0 |-> RZero,
     capacity_overrides |-> <<[u |-> 0, t |-> 0, value |-> RInt(5)]>>,
     i0_overrides |-> <<[u |-> 0, i |-> 0, value |-> ROne]>>,
     demand |-> demand,
     transfer_costs |-> IF transfer THEN TransferCosts(U, I, T) ELSE <<>>,
     bigM |-> IF transfer THEN BigMTable(I, T, BigMValue(demand)) ELSE <<>>,
     mip_gap |-> R(1, 1000000), time_limit_sec |-> 60, threads |-> 0,
     sep_violation_eps |-> R(1, 100000000), max_iters |-> 50]

\* DemandSets handed over by Generate
DemandSets ==
    {<<>>,
     <<[u |-> 0, i |-> 0, t |-> 0, amount |-> ROne]>>,
     <<[u |-> 0, i |-> 0, t |-> 0, amount |-> RInt(6000)]>>,
     <<[u |-> 0, i |-> 0, t |-> 0, amount |-> RInt(6000)],
       [u |-> 0, i |-> 0, t |-> 0, amount |-> R(5, 2)]>>}

\* GeneratorConfigs with one field out of line
Defects ==
    {"U", "I", "T", "cX", "cY", "cI", "sX", "sY", "default_capacity",
     "default_i0", "mip_gap", "time_limit_sec", "max_iters",
     "demand_u", "demand_i", "demand_t", "demand_amount",
     "capacity_u", "capacity_t", "capacity_value",
     "i0_u", "i0_i", "i0_value",
     "transfer_off", "bigM_off",
     "cT_u", "cT_v", "cT_i", "cT_t", "cT_cost", "M_i", "M_t", "M_value"}

Broken(g, d) ==
    LET on == [g EXCEPT !.enable_transfer = TRUE]
        cT(u, v, i, t, cost) ==
            [on EXCEPT !.transfer_costs =
                <<[u |-> u, v |-> v, i |-> i, t |-> t, cost |-> cost]>>]
        bM(i, t, M) == [on EXCEPT !.bigM = <<[i |-> i, t |-> t, M |-> M]>>]
        dem(u, i, t, amount) ==
            [g EXCEPT !.demand = Append(@, [u |-> u, i |-> i, t |-> t,
                                            amount |-> amount])]
    IN  CASE d = "U" -> [g EXCEPT !.U = 0]
          [] d = "I" -> [g EXCEPT !.I = 0]
          [] d = "T" -> [g EXCEPT !.T = -1]
          [] d = "cX" -> [g EXCEPT !.cX = Tail(@)]
          [] d = "cY" -> [g EXCEPT !.cY = Append(@, ROne)]
          [] d = "cI" -> [g EXCEPT !.cI = Tail(@)]
          [] d = "sX" -> [g EXCEPT !.sX = Append(@, ROne)]
          [] d = "sY" -> [g EXCEPT !.sY = Tail(@)]
          [] d = "default_capacity" -> [g EXCEPT !.default_capacity = RInt(-1)]
          [] d = "default_i0" -> [g EXCEPT !.default_i0 = R(-1, 2)]
          [] d = "mip_gap" -> [g EXCEPT !.mip_gap = R(-1, 100)]
          [] d = "time_limit_sec" -> [g EXCEPT !.time_limit_sec = 0]
          [] d = "max_iters" -> [g EXCEPT !.max_iters = 0]
          [] d = "demand_u" -> dem(g.U, 0, 0, ROne)
          [] d = "demand_i" -> dem(0, -1, 0, ROne)
          [] d = "demand_t" -> dem(0, 0, g.T, ROne)
          [] d = "demand_amount" -> dem(0, 0, 0, RInt(-1))
          [] d = "capacity_u" ->
                [g EXCEPT !.capacity_overrides =
                    <<[u |-> -1, t |-> 0, value |-> ROne]>>]
          [] d = "capacity_t" ->
                [g EXCEPT !.capacity_overrides =
                    <<[u |-> 0, t |-> g.T, value |-> ROne]>>]
          [] d = "capacity_value" ->
                [g EXCEPT !.capacity_overrides =
                    <<[u |-> 0, t |-> 0, value |-> RInt(-1)]>>]
          [] d = "i0_u" ->
                [g EXCEPT !.i0_overrides =
                    <<[u |-> g.U, i |-> 0, value |-> ROne]>>]
          [] d = "i0_i" ->
                [g EXCEPT !.i0_overrides =
                    <<[u |-> 0, i |-> -1, value |-> ROne]>>]
          [] d = "i0_value" ->
                [g EXCEPT !.i0_overrides =
                    <<[u |-> 0, i |-> 0, value |-> RInt(-1)]>>]
          [] d = "transfer_off" ->
                [g EXCEPT !.enable_transfer = FALSE,
                          !.transfer_costs =
                              <<[u |-> 0, v |-> 0, i |-> 0, t |-> 0,
                                 cost |-> TransferCost]>>,
                          !.bigM = <<>>]
          [] d = "bigM_off" ->
                [g EXCEPT !.enable_transfer = FALSE,
                          !.transfer_costs = <<>>,
                          !.bigM = BigMTable(g.I, g.T, BigMValue(g.demand))]
          [] d = "cT_u" -> cT(g.U, 0, 0, 0, TransferCost)
          [] d = "cT_v" -> cT(0, -1, 0, 0, TransferCost)
          [] d = "cT_i" -> cT(0, 0, g.I, 0, TransferCost)
          [] d = "cT_t" -> cT(0, 0, 0, -1, TransferCost)
          [] d = "cT_cost" -> cT(0, 0, 0, 0, RInt(-5))
          [] d = "M_i" -> bM(g.I, 0, RInt(10000))
          [] d = "M_t" -> bM(0, g.T, RInt(10000))
          [] d = "M_value" -> bM(0, 0, RZero)

\* the GeneratorConfigs GenerateCsv is called with
CaseConfigs ==
    LET valid == {ValidConfig(U, I, T, transfer, demand) :
                     U \in 1 .. MaxU, I \in 1 .. MaxI, T \in 1 .. MaxT,
                     transfer \in BOOLEAN, demand \in DemandSets}
        base == {ValidConfig(1, 1, 1, transfer, <<>>) : transfer \in BOOLEAN}
                \cup {ValidConfig(MaxU, MaxI, MaxT, FALSE, <<>>)}
    IN  valid \cup {Broken(g, d) : g \in base, d \in Defects}

\* "if (enable_transfer) { ... }" between the statistics and the file name
MainGenerateTransfer ==
    /\ mainPc = "transfer"
    /\ IF gc.enable_transfer
       THEN /\ gc' = [gc EXCEPT
                  !.transfer_costs = @ \o TransferCosts(gc.U, gc.I, gc.T),
                  !.bigM = @ \o BigMTable(gc.I, gc.T, BigMValue(gc.demand))]
            /\ logBuf' = LogAll(logBuf,
                   <<"generating transfer", "transfer count", "bigM count",
                     "bigM value">>)
       ELSE UNCHANGED <<gc, logBuf>>
    /\ mainPc' = "file_name"
    /\ UNCHANGED <<genVars, logSaves, logFile, csv, exitCode, callVars,
                   unitVars>>

\* ------------------------------------------------------------------------
\* Two calls of Generate on one Configuration, one after the other
\* ------------------------------------------------------------------------
FirstCall ==
    /\ callNo = 0
    /\ pc = "idle"
    /\ mainPc = "start"
    /\ EnterGenerate
    /\ UNCHANGED <<mainVars, firstResult>>

SecondCall ==
    /\ callNo = 1
    /\ pc \in {"returned", "thrown"}
    /\ mainPc = "start"
    /\ firstResult' = [outcome |-> pc, demands |-> demands, err |-> err]
    /\ EnterGenerate
    /\ UNCHANGED mainVars

Next ==
    \/ MainCallGenerate
    \/ GenerateEntry
    \/ CalculateAvailableCapacity
    \/ GeneratePeriodWeights
    \/ GenerateNodeWeights
    \/ DemandPointsBegin
    \/ DemandPoint
    \/ DemandPointsEnd
    \/ VerifyFeasibility
    \/ MainGenerateReturned
    \/ MainOpenCsv
    \/ MainGenerateCsv
    \/ MainFinish
    \/ MainCatch

Spec == Init /\ [][Next]_vars

NextTwice ==
    \/ FirstCall
    \/ SecondCall
    \/ GenerateEntry
    \/ CalculateAvailableCapacity
    \/ GeneratePeriodWeights
    \/ GenerateNodeWeights
    \/ DemandPointsBegin
    \/ DemandPoint
    \/ DemandPointsEnd
    \/ VerifyFeasibility

SpecTwice == Init /\ [][NextTwice]_vars

\* ------------------------------------------------------------------------
\* One call of Generate, run as the sequential code it is: a statement
\* that can execute does execute
\* ------------------------------------------------------------------------
\* Configurations with one item and the three concentrations alike
InitOneCall ==
    /\ Init
    /\ cfg.I = 1
    /\ cfg.unit_sY = RInt(2)
    /\ cfg.capacity_utilization = ROne
    /\ cfg.node_concentration = cfg.time_concentration
    /\ cfg.item_concentration = cfg.time_concentration

NextOneCall ==
    \/ FirstCall
    \/ GenerateEntry
    \/ CalculateAvailableCapacity
    \/ GeneratePeriodWeights
    \/ GenerateNodeWeights
    \/ DemandPointsBegin
    \/ DemandPoint
    \/ DemandPointsEnd
    \/ VerifyFeasibility

\* the positions at which Generate has a statement to execute
Running ==
    {"entry", "capacity", "period_weights", "node_weights", "points",
     "loop", "verify"}

\* the statement at the current position is executed: control moves on,
\* or the loop counter does
Executes ==
    /\ pc \in Running
    /\ pc' \in Running \cup {"returned", "thrown"}
    /\ idx' \in {idx, idx + 1}

SpecOneCall ==
    /\ InitOneCall
    /\ [][NextOneCall]_vars
    /\ WF_vars(FirstCall)
    /\ WF_<<pc, idx>>(Executes)
\* ------------------------------------------------------------------------
\* Several threads calling the public methods of one Logger
\* ------------------------------------------------------------------------
InitLogger ==
    /\ GeneratorIdle
    /\ mainPc = "threads"
    /\ gc = <<>>
    /\ logBuf = <<>>
    /\ logSaves = 0
    /\ logFile = <<>>
    /\ csv = NoCsv
    /\ exitCode = -1
    /\ mutex = 0
    /\ threads = [t \in Threads |-> IdleThread]
    /\ calls = <<>>

NextLogger ==
    \E t \in Threads :
        \/ ThreadCall(t)
        \/ LockGuard(t)
        \/ LogLine(t)
        \/ SaveOpen(t)
        \/ SaveMessage(t)
        \/ BufferNewline(t)
        \/ Unlock(t)
        \/ GetLogFilename(t)

SpecLogger == InitLogger /\ [][NextLogger]_vars

\* ------------------------------------------------------------------------
\* writeRow calls on one CsvWriter
\* ------------------------------------------------------------------------
InitCsv ==
    /\ GeneratorIdle
    /\ mainPc = "rows"
    /\ gc = <<>>
    /\ logBuf = <<>>
    /\ logSaves = 0
    /\ logFile = <<>>
    /\ csv = [open |-> TRUE, wrote_header |-> FALSE, ofs |-> <<>>]
    /\ exitCode = -1
    /\ mutex = 0
    /\ threads = <<>>
    /\ calls = <<>>

NextCsv ==
    \/ CallWriteRowString
    \/ CallWriteRowInt
    \/ CallWriteRowDouble

SpecCsv == InitCsv /\ [][NextCsv]_vars

\* ------------------------------------------------------------------------
\* The transfer block of main on the configurations and DemandSets it meets
\* ------------------------------------------------------------------------
InitTransfer ==
    /\ GeneratorIdle
    /\ mainPc = "transfer"
    /\ \E U \in 1 .. MaxU : \E I \in 1 .. MaxI : \E T \in 1 .. MaxT :
       \E transfer \in BOOLEAN : \E demand \in DemandSets :
          gc = [ValidConfig(U, I, T, transfer, demand) EXCEPT
                    !.transfer_costs = <<>>, !.bigM = <<>>]
    /\ logBuf = <<>>
    /\ logSaves = 0
    /\ logFile = <<>>
    /\ csv = NoCsv
    /\ exitCode = -1
    /\ mutex = 0
    /\ threads = <<>>
    /\ calls = <<>>

NextTransfer == MainGenerateTransfer

SpecTransfer == InitTransfer /\ [][NextTransfer]_vars

\* ------------------------------------------------------------------------
\* CaseGenerator::GenerateCsv on valid and invalid GeneratorConfigs
\* ------------------------------------------------------------------------
InitCase ==
    /\ GeneratorIdle
    /\ mainPc = "generate_csv"
    /\ gc \in CaseConfigs
    /\ logBuf = <<>>
    /\ logSaves = 0
    /\ logFile = <<>>
    /\ csv = [open |-> TRUE, wrote_header |-> FALSE, ofs |-> <<>>]
    /\ exitCode = -1
    /\ mutex = 0
    /\ threads = <<>>
    /\ calls = <<>>

NextCase ==
    \/ MainGenerateCsv
    \/ MainFinish
    \/ MainCatch

SpecCase == InitCase /\ [][NextCase]_vars

\* ========================================================================
\* Properties
\* ========================================================================
\* capacity consumed in cell k by the points of the sequence ds
RECURSIVE CellLoad(_, _, _)
CellLoad(ds, js, k) ==
    IF js = {} THEN RZero
    ELSE LET j == CHOOSE x \in js : TRUE
             rest == CellLoad(ds, js \ {j}, k)
         IN  IF ds[j].u = k[1] /\ ds[j].t = k[2]
             THEN RAdd(rest, RMul(ds[j].amount, cfg.unit_sX))
             ELSE rest

Load(k) == CellLoad(demands, DOMAIN demands, k)

\* items that have demand in cell k
ItemsIn(k) ==
    {demands[j].i : j \in {x \in DOMAIN demands :
                              demands[x].u = k[1] /\ demands[x].t = k[2]}}

OverBudget(k) ==
    RLt(RMul(available_capacity[k], R(101, 100)), Load(k))

\* C1: every (node, period) cell carries at most 1.01 times its budget,
\* so VerifyFeasibility never throws and Generate never fails.
C1_CapacityInvariant ==
    /\ pc # "thrown"
    /\ \A k \in DOMAIN available_capacity : ~OverBudget(k)

\* C2: in every cell, production plus one setup per distinct item with
\* demand there fits into the raw capacity default_capacity.
C2_RawCapacityFeasible ==
    \A k \in Cells :
        RLe(RAdd(Load(k), RMul(RInt(Cardinality(ItemsIn(k))), cfg.unit_sY)),
            cfg.default_capacity)

\* C3: the second of two calls on one Configuration rebuilds the DemandSet
\* of the first element for element and ends the same way.
C3_Determinism ==
    callNo = 2 =>
        /\ Len(demands) <= Len(firstResult.demands)
        /\ \A j \in DOMAIN demands : demands[j] = firstResult.demands[j]
        /\ pc \in {"returned", "thrown"} =>
              /\ pc = firstResult.outcome
              /\ demands = firstResult.demands
              /\ err = firstResult.err

C3_Witness ==
    /\ callNo = 2
    /\ pc = "returned"
    /\ Len(demands) >= 2
    /\ cfg.node_concentration # RZero

\* C4: after every prefix of the loop the points emitted number at most the
\* attempts made, which number at most N; a returned DemandSet is shorter
\* than N only if an attempt found no cell with capacity left.
C4_Cardinality ==
    /\ Len(demands) <= idx
    /\ idx <= PointCount(cfg)
    /\ Len(demands) < idx =>
          \A k \in Cells :
              RLe(RSub(available_capacity[k], MapGet(used_capacity, k)), RZero)
    /\ pc = "returned" =>
          \/ Len(demands) = PointCount(cfg)
          \/ \A k \in Cells :
                RLe(RSub(available_capacity[k], MapGet(used_capacity, k)),
                    RZero)

C4_Witness ==
    /\ pc = "returned"
    /\ Len(demands) >= 1
    /\ Len(demands) < PointCount(cfg)

\* C5: when the raw capacity is zero or the estimated setup overhead
\* I * demand_intensity * unit_sY is at least the raw capacity, the loop is
\* never entered, no point is emitted and no error is raised.
ZeroBudget ==
    RLe(cfg.default_capacity,
        RMul(RMul(RInt(cfg.I), cfg.demand_intensity), cfg.unit_sY))

C5_ZeroCapacity ==
    ZeroBudget =>
        /\ pc \notin {"loop", "thrown"}
        /\ demands = <<>>
        /\ idx = 0
        /\ err = NoErr

C5_Witness ==
    /\ ZeroBudget
    /\ cfg.default_capacity # RZero
    /\ cfg.demand_intensity = ROne
    /\ pc = "returned"

\* C6: when floor(U*I*T*demand_intensity) is 0, Generate returns the empty
\* DemandSet, neither capacity map comes into existence and no random draw
\* is consumed.
C6_ZeroIntensity ==
    (cfg.U * cfg.I * cfg.T * cfg.demand_intensity[1]
        < cfg.demand_intensity[2]) =>
        /\ pc \in {"idle", "entry", "returned"}
        /\ demands = <<>>
        /\ created = {}
        /\ available_capacity = <<>>
        /\ used_capacity = <<>>
        /\ draws = 0

C6_Witness ==
    /\ pc = "returned"
    /\ cfg.demand_intensity # RZero
    /\ total_demand_points = 0

\* C7: generating the weights of an axis whose concentration is 0 yields
\* 1/n in every entry and leaves the random stream where it was.
Uniform(n) == [k \in 1 .. n |-> <<1, n>>]

C7_UniformConcentration ==
    [][/\ (pc = "period_weights" /\ cfg.time_concentration = RZero) =>
              /\ period_weights' = Uniform(cfg.T)
              /\ rng' = rng /\ draws' = draws
       /\ (pc = "node_weights" /\ cfg.node_concentration = RZero) =>
              /\ node_weights' = Uniform(cfg.U)
              /\ rng' = rng /\ draws' = draws
       /\ (pc = "points" /\ pc' = "loop"
             /\ cfg.item_concentration = RZero) =>
              /\ item_weights' = Uniform(cfg.I)
              /\ rng' = rng /\ draws' = draws]_vars

C7_Witness ==
    /\ pc = "loop"
    /\ cfg.time_concentration = RZero
    /\ cfg.node_concentration # RZero
    /\ cfg.item_concentration = RZero
    /\ cfg.T = 2
    /\ cfg.I = 2
    /\ period_weights = <<R(1, 2), R(1, 2)>>
    /\ item_weights = <<R(1, 2), R(1, 2)>>

\* C8: U=I=T=1, capacity 100, unit_sX 1, unit_sY 0, intensity 1,
\* utilization 1: N = 1, budget[0,0] = 100, and exactly one point comes
\* back, at (0,0,0), with 1 <= amount <= 100.
Scenario ==
    /\ cfg.U = 1 /\ cfg.I = 1 /\ cfg.T = 1
    /\ cfg.default_capacity = RInt(100)
    /\ cfg.unit_sX = ROne
    /\ cfg.unit_sY = RZero
    /\ cfg.demand_intensity = ROne
    /\ cfg.capacity_utilization = ROne

C8_Scenario ==
    Scenario =>
        /\ pc # "thrown"
        /\ pc \notin {"idle", "entry"} => total_demand_points = 1
        /\ "available_capacity" \in created =>
              available_capacity = (<<0, 0>> :> RInt(100))
        /\ pc = "returned" =>
              /\ Len(demands) = 1
              /\ demands[1].u = 0 /\ demands[1].i = 0 /\ demands[1].t = 0
              /\ RLe(ROne, demands[1].amount)
              /\ RLe(demands[1].amount, RInt(100))

C8_Witness ==
    /\ Scenario
    /\ pc = "returned"
    /\ cfg.demand_size_variance = ROne
    /\ Len(demands) = 1
    /\ RLt(demands[1].amount, RInt(100))

\* C9: VerifyFeasibility throws exactly when some cell's recomputed usage
\* exceeds 1.01 times its budget; the error carries the node and period of
\* such a cell with its usage and budget; otherwise it returns and leaves
\* the DemandSet and the budget map as they were.
C9_VerifyThrows ==
    [][pc = "verify" =>
          /\ pc' = "thrown" <=> \E k \in Cells : OverBudget(k)
          /\ pc' # "thrown" => /\ pc' = "returned"
                               /\ err' = NoErr
          /\ pc' = "thrown" =>
                /\ <<err'.node, err'.period>> \in Cells
                /\ OverBudget(<<err'.node, err'.period>>)
                /\ err'.usage = Load(<<err'.node, err'.period>>)
                /\ err'.capacity =
                      available_capacity[<<err'.node, err'.period>>]
          /\ demands' = demands
          /\ available_capacity' = available_capacity]_vars

C9_Witness ==
    /\ pc = "thrown"
    /\ err.what = "feasibility"
    /\ Len(demands) >= 2

\* C10: when Generate throws, main logs the error, calls saveToFile and
\* returns 1 with no case file opened or written; main returns 0 only
\* after GenerateCsv has written the case file.
C10_FailureIsFatal ==
    /\ pc = "thrown" =>
          /\ ~csv.open
          /\ csv.ofs = <<>>
          /\ exitCode # 0
          /\ mainPc \in {"generate", "exited"}
          /\ mainPc = "exited" =>
                /\ exitCode = 1
                /\ logSaves = 1
                /\ \E j \in DOMAIN logBuf : logBuf[j] = "error"
    /\ csv.open => pc = "returned"
    /\ exitCode = 0 =>
          /\ mainPc = "exited"
          /\ pc = "returned"
          /\ csv.open
          /\ csv.ofs = WriteRows(NoCsv, CsvRows(gc)).ofs

C10_Witness ==
    /\ pc = "thrown"
    /\ mainPc = "exited"
    /\ exitCode = 1
    /\ logFile # <<>>

\* thread t is at a statement of log or saveToFile that reads or writes
\* the buffer
InBuffer(t) == threads[t].pc \in {"body", "message", "newline"}

\* thread t is inside the body of a public method
InMethod(t) == threads[t].pc \in {"body", "message", "newline", "read"}

\* call k of thread t has returned
Returned(t, k) ==
    k < Len(threads[t].ops) \/ threads[t].pc \in {"unlock", "idle"}

BufferExclusive ==
    \A s \in Threads : \A t \in Threads :
        InBuffer(s) /\ InBuffer(t) => s = t

\* every text in the buffer is followed at once by its terminator (the
\* last one may still be waiting for it while its writer holds the
\* mutex), and every returned log call left exactly one line
LinesComplete ==
    /\ \A j \in DOMAIN logBuf :
          IF logBuf[j] = Newline
          THEN j > 1 /\ logBuf[j - 1] # Newline
          ELSE IF j < Len(logBuf)
               THEN logBuf[j + 1] = Newline
               ELSE threads[logBuf[j][2]].pc = "newline"
    /\ \A t \in Threads : \A k \in DOMAIN threads[t].ops :
          threads[t].ops[k] = "log" /\ Returned(t, k) =>
              Cardinality({j \in DOMAIN logBuf :
                              logBuf[j] = <<"line", t, k>>}) = 1

PublicMethodsLocked == \A t \in Threads : InMethod(t) => mutex = t

\* C11: with several threads calling the public methods of one Logger,
\* the buffer is accessed by one thread at a time, every log call leaves
\* exactly one complete line, and every public method runs while its
\* thread holds the mutex.
C11_LoggerThreadSafe ==
    /\ BufferExclusive
    /\ LinesComplete
    /\ PublicMethodsLocked

\* the positions of the "\n" that end a unit of the stream: all of them,
\* or, when aware, only those outside a quoted field
Breaks(ofs, aware) ==
    LET quotes == {j \in DOMAIN ofs : ofs[j] = "\""}
    IN  {p \in DOMAIN ofs :
            /\ ofs[p] = "\n"
            /\ aware => Cardinality({j \in quotes : j < p}) % 2 = 0}

\* the stream cut after every such "\n"
Split(ofs, aware) ==
    LET breaks == Breaks(ofs, aware)
        end(k) == IF k = 0 THEN 0
                  ELSE CHOOSE p \in breaks :
                           Cardinality({q \in breaks : q < p}) = k - 1
    IN  [k \in 1 .. Cardinality(breaks) |->
            SubSeq(ofs, end(k - 1) + 1, end(k) - 1)]

PhysicalLines(ofs) == Split(ofs, FALSE)
Records(ofs) == Split(ofs, TRUE)

HeaderLine == SubSeq(CsvHeader, 1, Len(CsvHeader) - 1)

StartsWith(s, prefix) ==
    Len(s) >= Len(prefix) /\ SubSeq(s, 1, Len(prefix)) = prefix

HasLineBreak(s) == \E k \in DOMAIN s : s[k] \in {"\n", "\r"}

\* the header first and only first, then one unit per call, in call order
HeaderThenRows(units) ==
    IF calls = <<>> THEN csv.ofs = <<>>
    ELSE /\ csv.ofs[Len(csv.ofs)] = "\n"
         /\ Len(units) = 1 + Len(calls)
         /\ \A j \in DOMAIN units : (units[j] = HeaderLine) <=> (j = 1)
         /\ \A k \in DOMAIN calls :
               StartsWith(units[k + 1], Escape(calls[k].texts[1]))

\* C12 as stated: after any sequence of writeRow calls the output is the
\* header line, once and first, followed by exactly one line per call in
\* call order; with no call nothing is written.
C12_OneLinePerCall == HeaderThenRows(PhysicalLines(csv.ofs))

\* C12 amended: ... followed by exactly one CSV record per call in call
\* order; the record is a single line whenever no string argument of the
\* call contains a line break.
C12_OneRecordPerCall ==
    /\ HeaderThenRows(Records(csv.ofs))
    /\ \A k \in DOMAIN calls :
          (\A j \in DOMAIN calls[k].texts : ~HasLineBreak(calls[k].texts[j]))
              => ~HasLineBreak(Records(csv.ofs)[k + 1])

C12_Witness ==
    /\ Len(calls) = 2
    /\ calls[1].overload = "string"
    /\ HasLineBreak(calls[1].texts[3])
    /\ calls[2].overload = "double"
    /\ Len(Records(csv.ofs)) = 3
    /\ Len(PhysicalLines(csv.ofs)) = 4

\* the configurations the claim lists as rejected
IndexOut(x, n) == x < 0 \/ x >= n

Negative(x) == RLt(x, RZero)

Rejected(g) ==
    \/ g.U <= 0 \/ g.I <= 0 \/ g.T <= 0
    \/ \E vec \in {g.cX, g.cY, g.cI, g.sX, g.sY} : Len(vec) # g.I
    \/ Negative(g.default_capacity) \/ Negative(g.default_i0)
    \/ \E k \in DOMAIN g.demand :
          \/ IndexOut(g.demand[k].u, g.U) \/ IndexOut(g.demand[k].i, g.I)
          \/ IndexOut(g.demand[k].t, g.T) \/ Negative(g.demand[k].amount)
    \/ \E k \in DOMAIN g.capacity_overrides :
          \/ IndexOut(g.capacity_overrides[k].u, g.U)
          \/ IndexOut(g.capacity_overrides[k].t, g.T)
          \/ Negative(g.capacity_overrides[k].value)
    \/ \E k \in DOMAIN g.i0_overrides :
          \/ IndexOut(g.i0_overrides[k].u, g.U)
          \/ IndexOut(g.i0_overrides[k].i, g.I)
          \/ Negative(g.i0_overrides[k].value)
    \/ /\ g.enable_transfer
       /\ \/ \E k \in DOMAIN g.transfer_costs :
                \/ IndexOut(g.transfer_costs[k].u, g.U)
                \/ IndexOut(g.transfer_costs[k].v, g.U)
                \/ IndexOut(g.transfer_costs[k].i, g.I)
                \/ IndexOut(g.transfer_costs[k].t, g.T)
                \/ Negative(g.transfer_costs[k].cost)
          \/ \E k \in DOMAIN g.bigM :
                \/ IndexOut(g.bigM[k].i, g.I) \/ IndexOut(g.bigM[k].t, g.T)
                \/ Negative(g.bigM[k].M)
    \/ /\ ~g.enable_transfer
       /\ g.transfer_costs # <<>> \/ g.bigM # <<>>

\* C13: a GeneratorConfig of one of the rejected kinds makes GenerateCsv
\* throw before any writeRow call: the stream stays empty, the header is
\* not written, and main ends in its handler.
C13_ValidateBeforeWrite ==
    Rejected(gc) =>
        /\ csv.ofs = <<>>
        /\ ~csv.wrote_header
        /\ mainPc \in {"generate_csv", "caught", "exited"}
        /\ exitCode # 0

C13_Witness ==
    /\ Rejected(gc)
    /\ ~gc.enable_transfer
    /\ gc.bigM # <<>>
    /\ mainPc = "caught"
    /\ csv.open

SchemaOrder ==
    <<"meta", "cost", "cap_usage", "capacity", "init", "demand",
      "transfer", "bigM">>

Rank(label) == CHOOSE k \in DOMAIN SchemaOrder : SchemaOrder[k] = label

\* the section labels of the rows in the file, in file order
SectionsWritten ==
    LET rs == Records(csv.ofs)
    IN  [k \in 1 .. Len(rs) - 1 |-> rs[k + 1][1]]

\* C14: for a valid GeneratorConfig the section labels GenerateCsv writes
\* follow the documented schema order meta, cost, cap_usage, capacity,
\* init, demand, then transfer and bigM only when enable_transfer is set;
\* no row of another section is written and no row of an earlier section
\* follows a row of a later one.
C14_SchemaOrder ==
    mainPc \in {"finish", "exited"} /\ csv.wrote_header =>
        LET secs == SectionsWritten
            allowed == {SchemaOrder[k] : k \in
                            1 .. (IF gc.enable_transfer THEN 8 ELSE 6)}
        IN  /\ \A k \in DOMAIN secs : secs[k] \in allowed
            /\ \A j \in DOMAIN secs : \A k \in DOMAIN secs :
                  j < k => Rank(secs[j]) <= Rank(secs[k])
            /\ \A m \in 1 .. 5 : \E k \in DOMAIN secs :
                  secs[k] = SchemaOrder[m]

\* how many entries of a table agree with the record e on the fields fs
Entries(table, fs, e) ==
    Cardinality({k \in DOMAIN table : \A f \in fs : table[k][f] = e[f]})

\* C15: with enable_transfer set, the transfer-cost table holds exactly one
\* entry for every (u, v, i, t) with u # v and none with u = v, that is
\* U*(U-1)*I*T entries; the bigM table holds exactly one entry for every
\* (i, t), that is I*T entries, each with M = max(10000, 2 * total demand),
\* so M > 0 also for an empty DemandSet.
C15_TransferTables ==
    mainPc = "file_name" /\ gc.enable_transfer =>
        LET nodes == 0 .. gc.U - 1
            items == 0 .. gc.I - 1
            periods == 0 .. gc.T - 1
            twice == RMul(RInt(2), RSum([k \in DOMAIN gc.demand |->
                                            gc.demand[k].amount]))
        IN  /\ \A u \in nodes : \A v \in nodes :
               \A i \in items : \A t \in periods :
                  Entries(gc.transfer_costs, {"u", "v", "i", "t"},
                          [u |-> u, v |-> v, i |-> i, t |-> t])
                      = IF u # v THEN 1 ELSE 0
            /\ Len(gc.transfer_costs) = gc.U * (gc.U - 1) * gc.I * gc.T
            /\ \A i \in items : \A t \in periods :
                  Entries(gc.bigM, {"i", "t"}, [i |-> i, t |-> t]) = 1
            /\ Len(gc.bigM) = gc.I * gc.T
            /\ \A k \in DOMAIN gc.bigM :
                  /\ RLe(RInt(10000), gc.bigM[k].M)
                  /\ RLe(twice, gc.bigM[k].M)
                  /\ gc.bigM[k].M \in {RInt(10000), twice}
                  /\ RLt(RZero, gc.bigM[k].M)

C15_Witness ==
    /\ mainPc = "file_name"
    /\ gc.enable_transfer
    /\ gc.U >= 2
    /\ gc.demand = <<>>
    /\ Len(gc.transfer_costs) >= 2
    /\ gc.bigM[1].M = RInt(10000)

\* the cell and the item that the three draws of the next attempt pick
DrawnCell ==
    <<Discrete(node_weights, Canonical(rng, 2)),
      Discrete(period_weights, Canonical(rng, 1))>>

DrawnItem == Discrete(item_weights, Canonical(rng, 3))

DrawnCandidate == UniformReal(min_demand, max_demand, Canonical(rng, 4))

\* budget minus used of cell k, a cell never touched having used nothing
Left(k) ==
    RSub(available_capacity[k],
         IF k \in DOMAIN used_capacity THEN used_capacity[k] ELSE RZero)

Used(m, k) == IF k \in DOMAIN m THEN m[k] ELSE RZero

\* the step is an attempt of the allocation loop / one that emits a point
Attempt == pc = "loop" /\ idx' = idx + 1

Emits == Attempt /\ Len(demands') = Len(demands) + 1

\* C16: for every point the loop appends, amount * unit_sX is at most what
\* was left in its cell just before the append, also when that was
\* positive but below unit_sX.
C16_PerPointClamp ==
    [][Emits =>
          LET d == demands'[Len(demands')]
          IN  RLe(RMul(d.amount, cfg.unit_sX), Left(<<d.u, d.t>>))]_vars

\* C17: when the drawn cell has nothing left and some cell has, the point
\* goes to the first cell in key order (node, then period) with something
\* left, keeps the drawn item, and is clamped by what is left in that cell.
C17_FallbackRedirect ==
    [][(/\ Attempt
        /\ RLe(Left(DrawnCell), RZero)
        /\ \E k \in DOMAIN available_capacity : RLt(RZero, Left(k))) =>
          /\ Emits
          /\ LET d == demands'[Len(demands')]
                 k == <<d.u, d.t>>
             IN  /\ RLt(RZero, Left(k))
                 /\ \A j \in DOMAIN available_capacity :
                       RLt(RZero, Left(j)) =>
                           \/ j[1] > k[1]
                           \/ j[1] = k[1] /\ j[2] >= k[2]
                 /\ d.i = DrawnItem
                 /\ d.amount =
                       RMax(ROne, RMin(DrawnCandidate,
                                       RDiv(Left(k), cfg.unit_sX)))]_vars

\* the next attempt will be redirected, earlier points have filled the
\* drawn cell, and two cells later in key order still have room
C17_Witness ==
    /\ pc = "loop"
    /\ idx < total_demand_points
    /\ Len(demands) >= 1
    /\ RLe(Left(DrawnCell), RZero)
    /\ RLt(RZero, available_capacity[DrawnCell])
    /\ Cardinality({k \in DOMAIN available_capacity :
                       RLt(RZero, Left(k))}) >= 2

\* C18: an attempt is dropped exactly when no cell has budget minus used
\* above 0; a drop raises nothing, appends nothing, leaves every
\* UsedCapacity value as it was, and the loop goes on with the next
\* attempt.
C18_SilentDrop ==
    [][Attempt =>
          LET none == \A k \in DOMAIN available_capacity :
                          RLe(Left(k), RZero)
          IN  /\ (demands' = demands) <=> none
              /\ none =>
                    /\ err' = err
                    /\ logBuf' = logBuf
                    /\ pc' = "loop"
                    /\ \A k \in DOMAIN available_capacity :
                          Used(used_capacity', k) = Used(used_capacity, k)]_vars

\* attempts have been dropped after points were emitted
C18_Witness ==
    /\ pc = "loop"
    /\ Len(demands) >= 1
    /\ idx > Len(demands)
    /\ \A k \in DOMAIN available_capacity : RLe(Left(k), RZero)

\* C19: an emitted point adds amount * unit_sX to UsedCapacity of its own
\* cell and nothing to any other; no UsedCapacity value ever decreases
\* during the pass; the CapacityBudget map is the same from the end of
\* CalculateAvailableCapacity until Generate returns.
C19_UsedCapacityAccounting ==
    [][/\ Emits =>
             LET d == demands'[Len(demands')]
             IN  \A k \in DOMAIN available_capacity :
                    Used(used_capacity', k) =
                        IF k = <<d.u, d.t>>
                        THEN RAdd(Used(used_capacity, k),
                                  RMul(d.amount, cfg.unit_sX))
                        ELSE Used(used_capacity, k)
       /\ pc = "loop" =>
             \A k \in DOMAIN available_capacity :
                RLe(Used(used_capacity, k), Used(used_capacity', k))
       /\ pc \in {"period_weights", "node_weights", "points", "loop",
                  "verify"} =>
             available_capacity' = available_capacity]_vars

\* a run that used two cells and has reached the end of Generate
C19_Witness ==
    /\ pc = "returned"
    /\ Len(demands) >= 2
    /\ \E j \in DOMAIN demands : \E k \in DOMAIN demands :
          <<demands[j].u, demands[j].t>> # <<demands[k].u, demands[k].t>>
    /\ cfg.unit_sX = RInt(2)

\* C20: every DemandPoint of the DemandSet has amount >= 1.
C20_AmountAtLeastOne ==
    \A k \in DOMAIN demands : RLe(ROne, demands[k].amount)

\* a point floored to 1 in a cell that had less than unit_sX left
C20_Witness ==
    /\ pc = "verify"
    /\ \E k \in DOMAIN demands :
          /\ demands[k].amount = ROne
          /\ RLt(available_capacity[<<demands[k].u, demands[k].t>>],
                 cfg.unit_sX)

\* draws that the weights of an axis of n values take under concentration c
AxisDraws(n, c) == IF c = RZero THEN 0 ELSE n

\* the draws made so far are the next `k` values of the one stream
Consumes(k) == draws' = draws + k /\ rng' = RngAfter(rng, k)

\* the order of the stream up to the loop: nothing before the period
\* weights, then the node weights, then the item weights
WeightsInOrder ==
    /\ pc = "period_weights" =>
          /\ draws = 0
          /\ rng = RngSeed(cfg.random_seed)
          /\ Consumes(AxisDraws(cfg.T, cfg.time_concentration))
    /\ pc = "node_weights" =>
          /\ draws = AxisDraws(cfg.T, cfg.time_concentration)
          /\ Consumes(AxisDraws(cfg.U, cfg.node_concentration))
    /\ pc = "points" /\ pc' = "loop" =>
          /\ draws = AxisDraws(cfg.T, cfg.time_concentration)
                       + AxisDraws(cfg.U, cfg.node_concentration)
          /\ Consumes(AxisDraws(cfg.I, cfg.item_concentration))

\* an emitted point that was not redirected shows the order of its draws:
\* period first, node second, item third, amount fourth
PointInOrder ==
    (Emits /\ RLt(RZero, Left(DrawnCell))) =>
        LET d == demands'[Len(demands')]
        IN  /\ d.t = Discrete(period_weights, Canonical(rng, 1))
            /\ d.u = Discrete(node_weights, Canonical(rng, 2))
            /\ d.i = Discrete(item_weights, Canonical(rng, 3))
            /\ d.amount =
                  RMax(ROne, RMin(UniformReal(min_demand, max_demand,
                                              Canonical(rng, 4)),
                                  RDiv(Left(DrawnCell), cfg.unit_sX)))

\* C21: the stream is consumed as period weights, node weights, item
\* weights, then four draws (period, node, item, amount) by every attempt,
\* redirected and dropped attempts included.
C21_StreamOrder ==
    [][/\ WeightsInOrder
       /\ PointInOrder
       /\ Attempt => Consumes(4)]_vars

\* C21 as the code has it: an emitted attempt, redirected or not, takes the
\* four draws in that order; a dropped attempt takes the period, node and
\* item draws and no amount draw.
C21_StreamOrderDropsThree ==
    [][/\ WeightsInOrder
       /\ PointInOrder
       /\ Emits => Consumes(4)
       /\ (Attempt /\ ~Emits) => Consumes(3)]_vars

\* weights were drawn on every axis, points were emitted and then one
\* attempt was dropped
C21_Witness ==
    /\ pc = "loop"
    /\ Len(demands) >= 1
    /\ idx = Len(demands) + 1
    /\ cfg.time_concentration # RZero
    /\ cfg.node_concentration # RZero
    /\ cfg.item_concentration # RZero
    /\ draws = cfg.T + cfg.U + cfg.I + 4 * Len(demands) + 3

\* the stage that follows each position of Generate: capacity, the two
\* weight vectors, the allocator (its head and its loop), the verifier
NextStage ==
    {<<"idle", "entry">>, <<"entry", "capacity">>,
     <<"capacity", "period_weights">>, <<"period_weights", "node_weights">>,
     <<"node_weights", "points">>, <<"points", "loop">>,
     <<"points", "verify">>, <<"loop", "verify">>,
     <<"verify", "returned">>, <<"verify", "thrown">>}

\* what Verify checks, said of the DemandSet as it stands
VerifyPasses ==
    \A k \in DOMAIN available_capacity :
        RLe(Load(k), RMul(available_capacity[k], R(101, 100)))

\* floor(U * I * T * demand_intensity) = 0
NoPoints ==
    cfg.U * cfg.I * cfg.T * cfg.demand_intensity[1] < cfg.demand_intensity[2]

\* C22: every call runs Allocate Capacity, Generate Weights, Allocate
\* Demand and Verify in that order, never going back, and returns a
\* DemandSet only out of a Verify that passed.
C22_LinearPipeline ==
    [][pc' # pc =>
          /\ <<pc, pc'>> \in NextStage
          /\ pc' = "returned" => VerifyPasses]_vars

\* C22 as the code has it: a call whose point count is 0 returns the empty
\* DemandSet from its entry without running any stage; every other call
\* runs the four stages in order and returns only out of a Verify that
\* passed.
C22_LinearPipelineFromOne ==
    [][pc' # pc =>
          IF pc = "entry" /\ NoPoints
          THEN pc' = "returned" /\ demands' = <<>> /\ created' = {}
          ELSE /\ <<pc, pc'>> \in NextStage
               /\ pc' = "returned" => VerifyPasses]_vars

\* a call that went through every stage, the loop included, and returned
C22_Witness ==
    /\ pc = "returned"
    /\ total_demand_points >= 2
    /\ idx = total_demand_points
    /\ Len(demands) >= 1
    /\ created = {"available_capacity", "used_capacity"}

\* I * demand_intensity * unit_sY
SetupOverhead == RMul(RInt(cfg.I), RMul(cfg.demand_intensity, cfg.unit_sY))

\* max(0, default_capacity - setup overhead) * capacity_utilization
Budget ==
    RMul(RMax(RZero, RSub(cfg.default_capacity, SetupOverhead)),
         cfg.capacity_utilization)

\* C23: the map that CalculateAvailableCapacity builds has the key set
\* {0..U-1} x {0..T-1} and holds max(0, default_capacity -
\* I*demand_intensity*unit_sY) * capacity_utilization at every key, a value
\* that is never negative; building it takes no random draw.
C23_BudgetMap ==
    /\ "available_capacity" \in created =>
          /\ DOMAIN available_capacity =
                (0 .. cfg.U - 1) \X (0 .. cfg.T - 1)
          /\ \A k \in DOMAIN available_capacity :
                /\ available_capacity[k] = Budget
                /\ RLe(RZero, available_capacity[k])
    /\ pc = "period_weights" =>
          /\ "available_capacity" \in created
          /\ draws = 0
          /\ rng = RngSeed(cfg.random_seed)

\* the map has just been built, over several cells, for a Configuration
\* whose setup overhead is larger than its raw capacity
C23_Witness ==
    /\ pc = "period_weights"
    /\ cfg.U * cfg.T >= 2
    /\ RLt(RZero, cfg.default_capacity)
    /\ RLt(cfg.default_capacity, SetupOverhead)
    /\ \A k \in DOMAIN available_capacity : available_capacity[k] = RZero

\* C24: no DemandPoint lies in a (node, period) cell whose CapacityBudget
\* is zero, be it the stored value or max(0, raw capacity - setup
\* overhead) * utilization that defines it; this holds for points placed
\* directly and for redirected ones alike.
C24_NoDemandInZeroCell ==
    \A j \in DOMAIN demands :
        /\ available_capacity[<<demands[j].u, demands[j].t>>] # <<0, 1>>
        /\ Budget # <<0, 1>>

\* the allocator has been run for several points on a map whose cells
\* all have budget zero, the setup overhead exceeding a positive capacity
C24_Witness ==
    /\ pc = "verify"
    /\ total_demand_points >= 2
    /\ RLt(RZero, cfg.default_capacity)
    /\ RLe(cfg.default_capacity, SetupOverhead)
    /\ \E k \in DOMAIN available_capacity : available_capacity[k] = RZero
    /\ demands = <<>>

\* (sum of all budgets / N) / unit_sX, from the Configuration
AvgAmount ==
    RDiv(RDiv(RMul(RInt(cfg.U * cfg.T), Budget),
              RInt(RTrunc(RMul(RInt(cfg.U * cfg.I * cfg.T),
                               cfg.demand_intensity)))),
         cfg.unit_sX)

\* C25: throughout the allocation loop the amount bounds are those
\* computed from the budgets at start, min = max(1, avg*(1 - variance))
\* and max = max(min + 1, avg*(1 + variance)) with avg = (sum of budgets /
\* N) / unit_sX; min >= 1, max >= min + 1, and no attempt changes them.
C25_AmountBounds ==
    [][pc = "loop" =>
          /\ min_demand =
                RMax(ROne, RMul(AvgAmount,
                                RSub(ROne, cfg.demand_size_variance)))
          /\ max_demand =
                RMax(RAdd(min_demand, ROne),
                     RMul(AvgAmount, RAdd(ROne, cfg.demand_size_variance)))
          /\ RLe(ROne, min_demand)
          /\ RLe(RAdd(min_demand, ROne), max_demand)
          /\ min_demand' = min_demand
          /\ max_demand' = max_demand]_vars

\* capacity has been consumed, and the bounds are those of an average
\* above 1 with no variance, where only the gap of 1 keeps them apart
C25_Witness ==
    /\ pc = "loop"
    /\ Len(demands) >= 1
    /\ idx < total_demand_points
    /\ cfg.demand_size_variance = RZero
    /\ RLt(ROne, min_demand)
    /\ max_demand = RAdd(min_demand, ROne)

C27_BoundedOvershoot ==
    [][/\ \A k \in DOMAIN available_capacity' :
             RLt(Used(used_capacity', k),
                 RAdd(available_capacity'[k], cfg.unit_sX))
       /\ Emits =>
             LET d == demands'[Len(demands')]
                 k == <<d.u, d.t>>
             IN  /\ RLt(Used(used_capacity, k), available_capacity[k])
                 /\ RLt(available_capacity[k], Used(used_capacity', k)) =>
                       d.amount = ROne]_vars

\* a cell stands above its budget after its last point, and the loop has
\* gone on with further attempts
C27_Witness ==
    /\ pc = "loop"
    /\ idx >= 2
    /\ cfg.U * cfg.T >= 2
    /\ \E k \in DOMAIN available_capacity :
          /\ RLt(available_capacity[k], Used(used_capacity, k))
          /\ \E j \in DOMAIN demands :
                j < Len(demands) /\ <<demands[j].u, demands[j].t>> = k

\* C28: once an attempt of a call has been dropped, every later attempt of
\* that call is dropped too; a point is emitted only while all attempts
\* before it were emitted, so the DemandSet is what a prefix of the
\* attempts emitted.
C28_DropsAbsorbing ==
    [][/\ (Attempt /\ idx > Len(demands)) => demands' = demands
       /\ Emits => idx = Len(demands)]_vars

\* points were emitted, then at least two attempts in a row were dropped
C28_Witness ==
    /\ pc \in {"loop", "verify"}
    /\ Len(demands) >= 2
    /\ idx >= Len(demands) + 2
    /\ cfg.U * cfg.T >= 2

\* the four checks that Validate makes on one demand entry
DemandInRange(d, U, I, T) ==
    /\ d.u \in 0 .. U - 1
    /\ d.i \in 0 .. I - 1
    /\ d.t \in 0 .. T - 1
    /\ d.amount[1] >= 0

\* C29: every DemandPoint has 0 <= u < U, 0 <= i < I, 0 <= t < T and a
\* non-negative amount, redirected points included; its (u,t) is a key of
\* the CapacityBudget map; and the list main hands to CaseGenerator passes
\* the demand checks of Validate.
C29_IndexRanges ==
    /\ \A j \in DOMAIN demands :
          /\ DemandInRange(demands[j], cfg.U, cfg.I, cfg.T)
          /\ <<demands[j].u, demands[j].t>> \in DOMAIN available_capacity
    /\ gc # <<>> =>
          \A j \in DOMAIN gc.demand :
             DemandInRange(gc.demand[j], gc.U, gc.I, gc.T)
    /\ mainPc = "generate_csv" => ValidateOk(gc)

\* a DemandSet over several nodes, items and cells, with a cell filled up,
\* has been handed to CaseGenerator and has passed Validate
C29_Witness ==
    /\ mainPc = "finish"
    /\ Len(gc.demand) >= 3
    /\ cfg.U >= 2 /\ cfg.I >= 2
    /\ \E j \in DOMAIN demands : \E k \in DOMAIN demands :
          demands[j].u # demands[k].u
    /\ \E k \in DOMAIN available_capacity : RLe(Left(k), RZero)
====
